---- MODULE Spec2Model ----
(***************************************************************************)
(* reflbin (src/reflbin/reflbin.c): rebinning of multi-frame detector      *)
(* scan files.  The module models the per-file pipeline                    *)
(*   process_file -> integrate_psd -> { next_frame, accumulate_bins        *)
(*   (ACCUMULATE + save_row per raw row), write_frame (partial row,        *)
(*   shape reconciliation, mx_transpose, encoder hand-off) }               *)
(* and, as separate specifications over the same variables, the in-place  *)
(* transpose mx_transpose (SpecT) and the ICP encoder icp_save (SpecI).    *)
(***************************************************************************)
EXTENDS Integers, Sequences, FiniteSets, TLC

(***************************************************************************)
(* Bounds of the model.                                                    *)
(***************************************************************************)
\* MAX_BIN of reflbin.c:16 is 2048; the model scales it down so that frames
\* both smaller and larger than one clear_row() span occur.  The row buffer
\* holds MAX_BIN+1 values, the frame buffer MAX_BIN*MAX_BIN cells.
MAX_BIN == 3
\* raw rows handed to save_row per file
MaxRows == 3
\* point lines (frames) per file
MaxFrames == 2
\* largest frame_h and frame_w the transpose specification draws
MaxDim == 6
\* icp_save calls per run of the encoder specification
MaxCalls == 4
\* input files of a batch
MaxFiles == 2

\* lengths of the raw rows fed to the tokenizer: short rows, a row of
\* MAX_BIN values, and a row that fills the row buffer, bins[MAX_BIN+1]
\* (reflbin.c:373)
RowLens == {1, 2, MAX_BIN, MAX_BIN + 1}
Widths == {1, 2}
\* 1000000 is the default of main (reflbin.c:600)
Heights == {1, 2, 1000000}
\* <<start, stop>>, 0-origin inclusive; <<0, 1000000>> is the default of main
XWindows == {<<0, 1000000>>, <<1, 2>>}
YWindows == {<<0, 1000000>>, <<1, 1>>}
Outputs == {"ICP", "VTK"}

MatSize == MAX_BIN * MAX_BIN
Cells == 0 .. (MatSize - 1)

(***************************************************************************)
(* unsigned int counters: 32-bit modular arithmetic, kept as two 16-bit    *)
(* limbs <<high, low>>.                                                    *)
(***************************************************************************)
Limb == 2 ^ 16

U32(n) == <<(n \div Limb) % Limb, n % Limb>>

U32Plus(a, b) ==
  LET lo == a[2] + b[2]
      hi == a[1] + b[1] + (lo \div Limb)
  IN  <<hi % Limb, lo % Limb>>

U32Minus(a, b) ==
  LET lo == a[2] - b[2]
      hi == a[1] - b[1] - (IF lo < 0 THEN 1 ELSE 0)
  IN  <<hi % Limb, lo % Limb>>

U32Zero == <<0, 0>>

(***************************************************************************)
(* Sums over sequences and functions.                                      *)
(***************************************************************************)
Min2(a, b) == IF a < b THEN a ELSE b
Max2(a, b) == IF a > b THEN a ELSE b

\* the number of elements of an array held as a function on 0 .. n-1
Len0(f) == Cardinality(DOMAIN f)

RECURSIVE SumSeq(_)
SumSeq(s) == IF s = <<>> THEN 0 ELSE Head(s) + SumSeq(Tail(s))

RECURSIVE SumOver(_, _)
SumOver(f, S) ==
  IF S = {} THEN 0
  ELSE LET x == CHOOSE y \in S : TRUE IN f[x] + SumOver(f, S \ {x})


VARIABLES
  \* options (reflbin.c:75-77)
  width, height, xstart, xstop, ystart, ystop, save_partial, output,
  \* per-frame data (reflbin.c:63-65)
  matrix, frame_r, frame_w, frame_h, rows_accumulated,
  \* per-file data (reflbin.c:68-70)
  total_counts, recorded_counts, ignored_counts, nnz, rows, columns, points,
  warn_dims,
  \* control: where process_file / integrate_psd stands
  pc,
  \* raw rows handed to save_row in the current frame (history)
  raw,
  \* raw rows handed to save_row in the current file (history)
  nrows,
  \* the last frame as write_frame held it before the transpose step,
  \* [h, w, m], and the rows it then passed to the encoder (history)
  pre, enc,
  \* sum of all bins of all frames of this file as held before the transpose
  retained,
  \* the raw rows of the frame that pre and enc describe, and the number of
  \* frames write_frame has finalized in this file (history)
  lastraw, written,
  \* the lengths of the raw rows handed to save_row in this file, and the
  \* numbers of raw rows of the frames finalized in this file (history)
  seenlens, seenrows,
  \* the nonzero bins among the bins summed in retained, the values handed
  \* to the encoder in this file, and the files of the batch already
  \* processed (history)
  retained_nz, nvalues, files,
  \* the raw rows of this file whose bin count differed from columns and
  \* the frames whose height differed from rows, and the warnings printed
  \* for each of the two (history)
  col_differs, row_differs, col_warned, row_warned,
  \* state of the transpose and encoder specifications
  tn, tm, ta, t0, tcalls,
  icp_line, icp_c, icp_out, icp_in,
  \* accumulate_bins (reflbin.c:373-377): the number being built s, as a
  \* 32-bit unsigned value, have_number, the bin number b and the row buffer
  \* bins[MAX_BIN+1]
  tok_s, have_number, tok_b, bins,
  \* the digits read for the number being built, the digits and the value of
  \* the number emitted last, the number of values emitted that no save_row
  \* call has received yet, and the number of values emitted (history)
  tok_digits, tok_last, pending, nvals,
  \* history: the digits and separators of the frame that accumulate_bins has
  \* examined, as tokens, those the last read fetched and it never examined,
  \* and the rows it has handed to save_row
  ktext, unread, handed,
  \* main (reflbin.c:595-650): the command line after the program name,
  \* the loop index i, and how the run stands: "running", "exit0", "exit1"
  \* or "crashed"
  argv, argi, status,
  \* what gzopen, gzgets and fopen do for each file name (environment)
  io,
  \* the positions in argv of the files whose input gzopen opened, whose
  \* output fopen created, and that process_file processed to its end
  \* (history)
  opened, created, completed,
  \* rebin_counts (rebin.h:59-87): the arguments xold, Iold, xnew, the
  \* result Inew, the two bin iterators, and where the call stands:
  \* "idle", "loop", "done" or "crashed"
  xold, Iold, xnew, Inew, from, to, rpc,
  \* rebin_counts_2D (rebin2D.h:98-135): the arguments yold and ynew next
  \* to xold, Iold, xnew and Inew, and the locals jold and jnew
  yold, ynew, jold, jnew,
  \* str2imat (str2imat.c:20-55): the arguments str, size and imat, the
  \* locals i, number, k, nr and nc, the results *rows and *columns, where
  \* the call stands ("idle", "scanning" or "returned"), and the numbers of
  \* rows and columns and the first number the string was written with
  \* (history)
  str, imat_size, imat, str_i, number, str_k, nr, nc, out_rows, out_columns,
  spc, shape,
  \* vtk_save (reflbin.c:168-191): the argument v, each count as a 32-bit
  \* unsigned value, the strings written, and where the call stands:
  \* "idle", "called", "returned" or "undefined"; the codes written (history)
  vtk_v, vtk_out, vpc, vtk_codes

optvars == <<width, height, xstart, xstop, ystart, ystop, save_partial, output>>
framevars == <<matrix, frame_r, frame_w, frame_h, rows_accumulated>>
filevars == <<total_counts, recorded_counts, ignored_counts, nnz, rows, columns,
              points, warn_dims>>
histvars == <<raw, nrows, pre, enc, retained, lastraw, written, seenlens,
              seenrows, retained_nz, nvalues, files, col_differs, row_differs,
              col_warned, row_warned>>
tvars == <<tn, tm, ta, t0, tcalls>>
ivars == <<icp_line, icp_c, icp_out, icp_in>>
kvars == <<tok_s, have_number, tok_b, bins, tok_digits, tok_last, pending,
           nvals, ktext, unread, handed>>
mvars == <<argv, argi, status, io, opened, created, completed>>
rvars == <<xold, Iold, xnew, Inew, from, to, rpc, yold, ynew, jold, jnew>>
svars == <<str, imat_size, imat, str_i, number, str_k, nr, nc, out_rows,
           out_columns, spc, shape>>
vvars == <<vtk_v, vtk_out, vpc, vtk_codes>>
lvars == <<rvars, svars, vvars>>
vars == <<optvars, framevars, filevars, pc, histvars, tvars, ivars, mvars, lvars, kvars>>

(***************************************************************************)
(* Input.  A raw row of n pixels; every pixel of a file carries its own    *)
(* power of two, so the value of a bin names the pixels summed into it.    *)
(***************************************************************************)
PixelValue(r, i) == 2 ^ (r * (MAX_BIN + 1) + i)

RawRow(n) == [i \in 1 .. n |-> PixelValue(nrows, i - 1)]

(***************************************************************************)
(* clear_row, next_row, next_frame (reflbin.c:237-255)                     *)
(***************************************************************************)
\* clear_row() with the given frame_h, frame_w: MAX_BIN cells from
\* matrix + frame_h*frame_w are zeroed.
clear_row(m, fh, fw) ==
  [k \in Cells |-> IF k >= fh * fw /\ k < fh * fw + MAX_BIN THEN 0 ELSE m[k]]

\* the cells clear_row() writes lie in the frame buffer
ClearFits(fh, fw) == fh * fw + MAX_BIN <= MatSize

(***************************************************************************)
(* save_row (reflbin.c:319-368), for a raw row v of n = Len(v) values.     *)
(* Pixel indices are 0-origin as in the source: pixel i is v[i+1].         *)
(***************************************************************************)
InYWindow == frame_r >= ystart /\ frame_r <= ystop

\* row_data = matrix + frame_h*frame_w
RowBase == frame_h * frame_w

\* pixels the second loop visits: i = xstart .. min(n-1, xstop)
XPixels(n) == {i \in 0 .. (n - 1) : i >= xstart /\ i <= xstop}

\* bin that pixel i is added to: bin advances after every width pixels
BinOf(i) == (i - xstart) \div width

\* bin and w when the second loop ends
BinAfterLoop(n) == Cardinality(XPixels(n)) \div width
WAfterLoop(n) == Cardinality(XPixels(n)) % width

\* the frame buffer after "row_data[bin] += v[i]" over the window
RowData(v) ==
  [k \in Cells |->
     matrix[k] + SumOver([i \in XPixels(Len(v)) |->
                            IF RowBase + BinOf(i) = k THEN v[i + 1] ELSE 0],
                         XPixels(Len(v)))]

\* the else branch of "Decide what to do with partial bins" is taken
IgnoresPartialBin(n) ==
  /\ ~save_partial
  /\ ~(BinAfterLoop(n) = 0 /\ WAfterLoop(n) # 0)

\* bin after "Decide what to do with partial bins"
BinKept(n) ==
  IF save_partial
    THEN BinAfterLoop(n) + (IF WAfterLoop(n) # 0 THEN 1 ELSE 0)
    ELSE IF BinAfterLoop(n) = 0 /\ WAfterLoop(n) # 0 THEN 1
         ELSE BinAfterLoop(n)

\* row_data[bin], read by the else branch after the loop
PartialBinValue(v) == RowData(v)[RowBase + BinAfterLoop(Len(v))]

\* the row is binned and its bin count is not the established columns
ColumnsDiffer(n) == InYWindow /\ columns # 0 /\ BinKept(n) # columns

\* the warning of the column check fires and bin is forced to columns
ColumnsForced(n) == columns # 0 /\ warn_dims /\ BinKept(n) # columns

\* frame_w after the column check
BinFinal(n) == IF ColumnsForced(n) THEN columns ELSE BinKept(n)

\* mutant: the third loop (i = xstop+1 .. n-1) left out
OutsideX_LeftOnly(v) ==
  SumOver([i \in 0 .. (Len(v) - 1) |-> v[i + 1]],
          {i \in 0 .. (Len(v) - 1) : i < xstart})

\* counts of v left of xstart and right of xstop
OutsideX(v) ==
  SumOver([i \in 0 .. (Len(v) - 1) |-> v[i + 1]],
          {i \in 0 .. (Len(v) - 1) : i < xstart \/ i > xstop})

\* mutant: the pixel at xstart left out of recorded_counts
InsideX_AfterFirst(v) ==
  SumOver([i \in 0 .. (Len(v) - 1) |-> v[i + 1]],
          XPixels(Len(v)) \ {xstart})

InsideX(v) ==
  SumOver([i \in 0 .. (Len(v) - 1) |-> v[i + 1]], XPixels(Len(v)))

\* every cell save_row reads or writes lies in the frame buffer
SaveRowFits(n) ==
  InYWindow =>
    /\ \A i \in XPixels(n) : RowBase + BinOf(i) < MatSize
    /\ IgnoresPartialBin(n) => RowBase + BinAfterLoop(n) < MatSize

save_row(v) ==
  LET n == Len(v) IN
  IF InYWindow
    THEN /\ matrix' = RowData(v)
         /\ recorded_counts' =
              IF IgnoresPartialBin(n)
                THEN U32Minus(U32Plus(recorded_counts, U32(InsideX(v))),
                              U32(PartialBinValue(v)))
                ELSE U32Plus(recorded_counts, U32(InsideX(v)))
         /\ ignored_counts' =
              IF IgnoresPartialBin(n)
                THEN U32Plus(U32Plus(ignored_counts, U32(OutsideX(v))),
                             U32(PartialBinValue(v)))
                ELSE U32Plus(ignored_counts, U32(OutsideX(v)))
         /\ columns' = IF columns = 0 THEN BinKept(n) ELSE columns
         /\ warn_dims' = IF ColumnsForced(n) THEN FALSE ELSE warn_dims
         /\ frame_w' = BinFinal(n)
         /\ IF rows_accumulated + 1 = height
              THEN rows_accumulated' = 0 /\ frame_h' = frame_h + 1
              ELSE rows_accumulated' = rows_accumulated + 1 /\ frame_h' = frame_h
         /\ frame_r' = frame_r + 1
    ELSE /\ ignored_counts' = U32Plus(ignored_counts, U32(SumSeq(v)))
         /\ frame_r' = frame_r + 1
         /\ UNCHANGED <<matrix, recorded_counts, columns, warn_dims, frame_w,
                        frame_h, rows_accumulated>>

(***************************************************************************)
(* accumulate_bins (reflbin.c:370-458), one raw row: ACCUMULATE for each  *)
(* of its values, then save_row on the ';' or the frame-ending line break. *)
(***************************************************************************)
NonZero(v) == Cardinality({i \in 1 .. Len(v) : v[i] # 0})

AccumulateRow(n) ==
  /\ pc = "frame"
  /\ nrows < MaxRows
  /\ n <= MAX_BIN + 1
  /\ SaveRowFits(n)
  /\ LET v == RawRow(n) IN
       /\ total_counts' = U32Plus(total_counts, U32(SumSeq(v)))
       /\ nnz' = nnz + NonZero(v)
       /\ save_row(v)
       /\ raw' = Append(raw, v)
  /\ col_differs' = col_differs + (IF ColumnsDiffer(n) THEN 1 ELSE 0)
  /\ col_warned' = col_warned
                     + (IF InYWindow /\ ColumnsForced(n) THEN 1 ELSE 0)
  /\ nrows' = nrows + 1
  /\ seenlens' = seenlens \cup {n}
  /\ UNCHANGED <<optvars, rows, points, pc, pre, enc, retained, lastraw,
                 written, seenrows, retained_nz, nvalues, files, row_differs,
                 row_warned, tvars,
                 ivars, mvars, lvars, kvars>>

(***************************************************************************)
(* mx_transpose(n, m, a, a), the in-place branch (reflbin.c:206-224)       *)
(***************************************************************************)
\* mutant: the index permutation applied once, without the do-while
FollowCycle_Once(n, m, i, current) == n * (current % m) + (current \div m)

\* the do-while loop: follow the index permutation from current until it
\* no longer lies before i
RECURSIVE FollowCycle(_, _, _, _)
FollowCycle(n, m, i, current) ==
  LET column == current \div m
      row == current % m
      next == n * row + column
  IN  IF next < i THEN FollowCycle(n, m, i, next) ELSE next

Swap(a, i, j) == [a EXCEPT ![i] = a[j], ![j] = a[i]]

\* the for loop: i = 1 .. size-1 with size = m*n - 2
RECURSIVE TransposeLoop(_, _, _, _, _)
TransposeLoop(n, m, a, i, size) ==
  IF i < size
    THEN LET current == FollowCycle(n, m, i, i)
         IN  TransposeLoop(n, m, IF current > i THEN Swap(a, i, current) ELSE a,
                           i + 1, size)
    ELSE a

mx_transpose(n, m, a) ==
  IF n # 1 /\ m # 1 THEN TransposeLoop(n, m, a, 1, m * n - 2) ELSE a

(***************************************************************************)
(* write_frame (reflbin.c:257-315)                                         *)
(***************************************************************************)
\* the else branch of "Decide what to do with partial bins": the row under
\* accumulation is ignored
IgnoresPartialRow ==
  /\ ~save_partial
  /\ ~(frame_h = 0 /\ rows_accumulated # 0)

\* frame_h after the partial-row decision
HeightKept ==
  IF save_partial
    THEN frame_h + (IF rows_accumulated # 0 THEN 1 ELSE 0)
    ELSE IF frame_h = 0 /\ rows_accumulated # 0 THEN 1 ELSE frame_h

\* sum of v[0 .. frame_w-1], v = matrix + frame_h*frame_w
PartialRowValue ==
  SumOver(matrix, {k \in Cells : k >= RowBase /\ k < RowBase + frame_w})

\* the three cases of "Check for consistent number of rows in frame"
DroppedFrame == rows # 0 /\ HeightKept = 0
RowsMismatch == rows # 0 /\ HeightKept # 0 /\ rows # HeightKept

\* clear_row() for frame_h = lo .. hi-1 at row length fw
RECURSIVE ClearRows(_, _, _, _)
ClearRows(m, lo, hi, fw) ==
  IF lo < hi THEN ClearRows(clear_row(m, lo, fw), lo + 1, hi, fw) ELSE m

\* frame_w, frame_h and matrix after the row check
ReconciledW == IF DroppedFrame THEN columns ELSE frame_w
ReconciledH == IF rows = 0 THEN HeightKept ELSE rows
ReconciledMatrix ==
  IF DroppedFrame THEN ClearRows(matrix, 0, rows, columns)
  ELSE IF RowsMismatch THEN ClearRows(matrix, HeightKept, rows, frame_w)
  ELSE matrix

do_transpose == output = "ICP"

\* frame_w, frame_h and matrix after "Transpose the matrix if necessary"
FinalW == IF do_transpose THEN ReconciledH ELSE ReconciledW
FinalH == IF do_transpose THEN ReconciledW ELSE ReconciledH
FinalMatrix ==
  IF do_transpose
    THEN mx_transpose(ReconciledH, ReconciledW, ReconciledMatrix)
    ELSE ReconciledMatrix

\* "Output the rows one by one": frame_h-1 rows with continuation 1, then
\* one row with continuation 0, each of frame_w values from v
EncoderCalls == IF FinalH > 1 THEN FinalH ELSE 1
EncoderRows ==
  [r \in 1 .. EncoderCalls |->
     [c \in 1 .. FinalW |-> FinalMatrix[(r - 1) * FinalW + (c - 1)]]]

\* the encoders loop "while (1) { ...; if (--n == 0) break; ... }": with
\* n = frame_w < 1 the loop runs off the frame buffer
EncoderOverrun == FinalW < 1

\* every cell write_frame and the encoder read or write lies in the buffer
WriteFrameFits ==
  /\ IgnoresPartialRow => RowBase + frame_w <= MatSize
  /\ DroppedFrame => \A fh \in 0 .. (rows - 1) : ClearFits(fh, columns)
  /\ RowsMismatch => \A fh \in HeightKept .. (rows - 1) : ClearFits(fh, frame_w)
  /\ ReconciledH * ReconciledW <= MatSize
  /\ EncoderCalls * FinalW <= MatSize

\* the frame as it stands before the transpose step
PreFrame == [h |-> ReconciledH, w |-> ReconciledW,
             m |-> [k \in 0 .. (ReconciledH * ReconciledW - 1) |->
                      ReconciledMatrix[k]]]

FrameSum(f) == SumOver(f.m, DOMAIN f.m)

FrameNonZero(f) == Cardinality({k \in DOMAIN f.m : f.m[k] # 0})

write_frame ==
  /\ recorded_counts' =
       IF IgnoresPartialRow
         THEN U32Minus(recorded_counts, U32(PartialRowValue))
         ELSE recorded_counts
  /\ ignored_counts' =
       IF IgnoresPartialRow
         THEN U32Plus(ignored_counts, U32(PartialRowValue))
         ELSE ignored_counts
  /\ rows' = IF rows = 0 THEN HeightKept ELSE rows
  /\ warn_dims' = IF RowsMismatch THEN FALSE ELSE warn_dims
  /\ pre' = PreFrame
  /\ enc' = IF EncoderOverrun THEN <<>> ELSE EncoderRows
  /\ retained' = retained + FrameSum(PreFrame)
  /\ retained_nz' = retained_nz + FrameNonZero(PreFrame)
  /\ nvalues' = nvalues + (IF EncoderOverrun THEN 0
                           ELSE EncoderCalls * FinalW)
  /\ lastraw' = raw
  /\ written' = written + 1
  /\ seenrows' = seenrows \cup {Len(raw)}
  /\ row_differs' = row_differs + (IF RowsMismatch THEN 1 ELSE 0)
  /\ row_warned' = row_warned
                     + (IF RowsMismatch /\ warn_dims THEN 1 ELSE 0)

(***************************************************************************)
(* process_file and integrate_psd (reflbin.c:460-582)                      *)
(***************************************************************************)
ZeroMatrix == [k \in Cells |-> 0]
NoFrame == [h |-> 0, w |-> 0, m |-> <<>>]

\* what the input holds after the line just read
Follows == {"eof", "point_eof", "point"}

\* for (b=0; b < MAX_BIN+1; b++) bins[b] = 0.;
ZeroBins == [k \in 1 .. (MAX_BIN + 1) |-> 0]
NoNumber == [digits |-> <<>>, s |-> U32Zero]

\* accumulate_bins before its loop (reflbin.c:391-395)
TokenizerAtStart ==
  /\ tok_s = U32Zero /\ have_number = FALSE /\ tok_b = 0 /\ bins = ZeroBins
  /\ tok_digits = <<>> /\ tok_last = NoNumber /\ pending = 0 /\ nvals = 0
  /\ ktext = <<>> /\ unread = <<>> /\ handed = <<>>

\* main is not modelled outside specification SpecM: no arguments
ArgsAtRest ==
  /\ argv = <<>> /\ argi = 1 /\ status = "running"
  /\ io = <<>>
  /\ opened = {} /\ created = {} /\ completed = {}

\* the library functions are not called outside their specifications
NoIter == [forward |-> TRUE, bin |-> 0, lo |-> 0, hi |-> 0, atend |-> TRUE]
RebinAtRest ==
  /\ xold = <<>> /\ Iold = <<>> /\ xnew = <<>> /\ Inew = <<>>
  /\ from = NoIter /\ to = NoIter /\ rpc = "idle"
  /\ yold = <<>> /\ ynew = <<>> /\ jold = 0 /\ jnew = 0
Str2imatAtRest ==
  /\ str = <<>> /\ imat_size = 0 /\ imat = <<>> /\ str_i = 0 /\ number = 0
  /\ str_k = 0 /\ nr = 0 /\ nc = 0 /\ out_rows = 0 /\ out_columns = 0
  /\ spc = "idle" /\ shape = [R |-> 0, C |-> 0, first |-> 0]
VtkAtRest ==
  vtk_v = <<>> /\ vtk_out = <<>> /\ vpc = "idle" /\ vtk_codes = <<>>
LibAtRest == RebinAtRest /\ Str2imatAtRest /\ VtkAtRest

\* The program after main has read its options: globals are zero.  The
\* transpose and encoder variables are not used by this specification.
Init ==
  /\ width \in Widths
  /\ height \in Heights
  /\ \E xw \in XWindows : xstart = xw[1] /\ xstop = xw[2]
  /\ \E yw \in YWindows : ystart = yw[1] /\ ystop = yw[2]
  /\ save_partial \in BOOLEAN
  /\ output \in Outputs
  /\ matrix = ZeroMatrix
  /\ frame_r = 0 /\ frame_w = 0 /\ frame_h = 0 /\ rows_accumulated = 0
  /\ total_counts = U32Zero /\ recorded_counts = U32Zero
  /\ ignored_counts = U32Zero
  /\ nnz = 0 /\ rows = 0 /\ columns = 0 /\ points = 0
  /\ warn_dims = FALSE
  /\ pc = "idle"
  /\ raw = <<>> /\ nrows = 0 /\ pre = NoFrame /\ enc = <<>> /\ retained = 0
  /\ lastraw = <<>> /\ written = 0 /\ seenlens = {} /\ seenrows = {}
  /\ retained_nz = 0 /\ nvalues = 0 /\ files = 0
  /\ col_differs = 0 /\ row_differs = 0 /\ col_warned = 0 /\ row_warned = 0
  /\ tn = 0 /\ tm = 0 /\ ta = <<>> /\ t0 = <<>> /\ tcalls = 0
  /\ icp_line = <<" ">> /\ icp_c = 1 /\ icp_out = <<>> /\ icp_in = <<>>
  /\ TokenizerAtStart
  /\ LibAtRest
  /\ ArgsAtRest

\* process_file up to the first frame: the per-file reset (reflbin.c:498-500),
\* the header lines, and the first point line (reflbin.c:463-477).
\* first = "eof": no point line; "point_eof": the input ends with the point
\* line, so gzeof() is already true and the line is not counted; "point":
\* data follows, and the frame loop starts with next_frame().
BeginFile(first) ==
  /\ pc = "idle"
  /\ warn_dims' = TRUE
  /\ rows' = 0 /\ columns' = 0
  /\ points' = IF first = "point" THEN 1 ELSE 0
  /\ total_counts' = U32Zero /\ recorded_counts' = U32Zero
  /\ ignored_counts' = U32Zero
  /\ IF first = "point"
       THEN /\ pc' = "frame"
            /\ frame_r' = 0 /\ frame_w' = 0 /\ frame_h' = 0
            /\ rows_accumulated' = 0
            /\ matrix' = clear_row(matrix, 0, 0)
       ELSE /\ pc' = "done"
            /\ UNCHANGED framevars
  /\ UNCHANGED <<optvars, nnz, histvars, tvars, ivars, mvars, lvars, kvars>>

\* accumulate_bins returns at the end of the frame; write_frame(); then the
\* rest of the loop body (reflbin.c:484-487) and, when input remains,
\* next_frame() of the next iteration.  next: what followed the frame.
EndFrame(next) ==
  /\ pc = "frame"
  /\ next = "point" => points < MaxFrames
  /\ WriteFrameFits
  /\ write_frame
  /\ IF EncoderOverrun
       THEN /\ pc' = "crashed"
            /\ matrix' = FinalMatrix
            /\ frame_w' = FinalW /\ frame_h' = FinalH
            /\ UNCHANGED <<frame_r, rows_accumulated, points, raw>>
       ELSE /\ points' = IF next = "eof" THEN points ELSE points + 1
            /\ IF next = "point"
                 THEN /\ pc' = "frame"
                      /\ frame_r' = 0 /\ frame_w' = 0 /\ frame_h' = 0
                      /\ rows_accumulated' = 0
                      /\ matrix' = clear_row(FinalMatrix, 0, 0)
                      /\ raw' = <<>>
                 ELSE /\ pc' = "done"
                      /\ matrix' = FinalMatrix
                      /\ frame_w' = FinalW /\ frame_h' = FinalH
                      /\ UNCHANGED <<frame_r, rows_accumulated, raw>>
  /\ UNCHANGED <<optvars, total_counts, nnz, columns, nrows, seenlens, files,
                 col_differs, col_warned, tvars, ivars, mvars, lvars, kvars>>

Next ==
  \/ \E first \in Follows : BeginFile(first)
  \/ \E n \in RowLens : AccumulateRow(n)
  \/ \E next \in Follows : EndFrame(next)

Spec == Init /\ [][Next]_vars

(***************************************************************************)
(* Specification SpecB: a batch of files.  main's loop (reflbin.c:624-648) *)
(* returns from process_file and calls it for the next file argument; the  *)
(* globals keep the values the last file left.  The history variables      *)
(* start again for the new file, nrows counts the rows of the whole batch. *)
(***************************************************************************)
NextFile ==
  /\ pc = "done"
  /\ files + 1 < MaxFiles
  /\ pc' = "idle"
  /\ files' = files + 1
  /\ raw' = <<>> /\ pre' = NoFrame /\ enc' = <<>> /\ retained' = 0
  /\ lastraw' = <<>> /\ written' = 0 /\ seenlens' = {} /\ seenrows' = {}
  /\ retained_nz' = 0 /\ nvalues' = 0
  /\ col_differs' = 0 /\ row_differs' = 0
  /\ col_warned' = 0 /\ row_warned' = 0
  /\ UNCHANGED <<optvars, framevars, filevars, nrows, tvars, ivars, mvars,
                 lvars, kvars>>

\* the batch runs with -h1 and the full pixel window
InitB ==
  /\ Init
  /\ height = 1 /\ ~save_partial
  /\ xstart = 0 /\ xstop = 1000000 /\ ystart = 0 /\ ystop = 1000000

NextB == Next \/ NextFile

SpecB == InitB /\ [][NextB]_vars

(***************************************************************************)
(* Properties of the per-file pipeline (specification Spec)                *)
(***************************************************************************)
FullWindow == xstart = 0 /\ xstop = 1000000 /\ ystart = 0 /\ ystop = 1000000

Rectangular ==
  /\ Len(lastraw) >= 1
  /\ \A r \in 1 .. Len(lastraw) : Len(lastraw[r]) = Len(lastraw[1])

\* raw pixel i of raw row r of the frame last written (0 outside the frame)
RawAt(r, i) ==
  IF r < Len(lastraw) /\ i < Len(lastraw[r + 1]) THEN lastraw[r + 1][i + 1]
  ELSE 0

\* the sum of the raw pixels in the window of bin (j, k)
ExpectedBin(j, k) ==
  LET rs == {r \in 0 .. (Len(lastraw) - 1) :
               /\ ystart + j * height <= r /\ r < ystart + (j + 1) * height
               /\ r <= ystop}
      is == {i \in 0 .. MAX_BIN :
               /\ xstart + k * width <= i /\ i < xstart + (k + 1) * width
               /\ i <= xstop}
  IN  SumOver([q \in rs \X is |-> RawAt(q[1], q[2])], rs \X is)

\* C2: every bin (j,k) of a frame handed to the encoder is the sum of the raw
\* pixels of that frame in rows ystart+j*height .. and columns
\* xstart+k*width .. of the window, and of nothing else.  Stated for the
\* first frame of a file, which starts from a frame buffer of zeros, and for
\* raw rows of one length.
C2_BinsAreWindowSums ==
  (written = 1 /\ Rectangular) =>
    \A j \in 0 .. (pre.h - 1) : \A k \in 0 .. (pre.w - 1) :
      pre.m[j * pre.w + k] = ExpectedBin(j, k)

\* C3: at the end of a file recorded_counts is the sum of the bins of the
\* frames handed to the encoder and ignored_counts is everything else.
C3_RecordedIsRetained ==
  pc = "done" =>
    /\ recorded_counts = U32(retained)
    /\ ignored_counts = U32Minus(total_counts, U32(retained))

\* C4: once rows and columns are established, every frame write_frame then
\* finalizes has rows output rows of columns bins each.
C4_ShapeKept ==
  [][(pc = "frame" /\ rows # 0 /\ columns # 0 /\ written' = written + 1)
       => (pre'.h = rows /\ pre'.w = columns)]_vars

\* every frame finalized so far in the file holds R >= 1 raw rows of C
\* values each, for one R and one C
UniformFile ==
  /\ Cardinality(seenlens) = 1 /\ Cardinality(seenrows) = 1
  /\ 0 \notin seenrows

\* C5: with width = 1, height = 1 and the full window every frame of R rows
\* of C values is handed on as R x C with element (r,c) the c-th value of
\* the r-th raw row; a single-frame file ends with recorded = total and
\* ignored = 0.
C5_Identity ==
  (width = 1 /\ height = 1 /\ FullWindow /\ written >= 1 /\ UniformFile) =>
    /\ pre.h = Len(lastraw) /\ pre.w = Len(lastraw[1])
    /\ \A r \in 0 .. (pre.h - 1) : \A c \in 0 .. (pre.w - 1) :
         pre.m[r * pre.w + c] = lastraw[r + 1][c + 1]
    /\ (pc = "done" /\ written = 1 /\ points = 1) =>
         (recorded_counts = total_counts /\ ignored_counts = U32Zero)

\* the in-window pixels of the row just handed to save_row, in order
XCount == Cardinality(XPixels(Len(raw'[Len(raw')])))
TrailingSum ==
  LET v == raw'[Len(raw')] IN
  SumOver([i \in XPixels(Len(v)) |-> v[i + 1]],
          {i \in XPixels(Len(v)) :
             i - xstart >= (XCount \div width) * width})

\* C6: with keep-partial off, a row with n >= width in-window pixels gives
\* floor(n/width) bins, adds to bin k the in-window pixels k*width ..
\* k*width+width-1, and moves the sum of the trailing n mod width pixels
\* (and nothing more) from recorded_counts to ignored_counts.  Stated for
\* files whose raw rows all have one length.
C6_DropPartialBin ==
  [][(pc = "frame" /\ nrows' = nrows + 1 /\ ~save_partial /\ InYWindow
      /\ XCount >= width /\ Cardinality(seenlens') = 1)
       => LET v == raw'[Len(raw')] IN
          /\ BinKept(Len(v)) = XCount \div width
          /\ \A k \in 0 .. ((XCount \div width) - 1) :
               matrix'[RowBase + k] - matrix[RowBase + k] =
                 SumOver([i \in XPixels(Len(v)) |-> v[i + 1]],
                         {i \in XPixels(Len(v)) :
                            /\ i - xstart >= k * width
                            /\ i - xstart < (k + 1) * width})
          /\ recorded_counts' =
               U32Minus(U32Plus(recorded_counts, U32(InsideX(v))),
                        U32(TrailingSum))
          /\ ignored_counts' =
               U32Plus(U32Plus(ignored_counts, U32(OutsideX(v))),
                       U32(TrailingSum))]_vars

\* C7: an empty frame finalized after rows = R and columns = C are
\* established is handed on as R x C zeros, without the row warning and
\* with rows, columns and warn_dims unchanged.
C7_DroppedFrameIsZero ==
  [][(pc = "frame" /\ rows # 0 /\ columns # 0 /\ HeightKept = 0
      /\ written' = written + 1)
       => /\ pre'.h = rows /\ pre'.w = columns
          /\ \A k \in DOMAIN pre'.m : pre'.m[k] = 0
          /\ ~RowsMismatch
          /\ rows' = rows /\ columns' = columns /\ warn_dims' = warn_dims]_vars

(***************************************************************************)
(* Specification SpecK: the tokenizer accumulate_bins (reflbin.c:370-458), *)
(* one character of the data block per step.  The character is line[i];   *)
(* where the code calls next_line, the step also draws what the input      *)
(* holds next.  The numbers of the input are drawn from Numbers.           *)
(* pc = "scanning": in the while loop; "returned": accumulate_bins has     *)
(* returned; "aborted": assert() has failed; "undefined": a store outside  *)
(* bins[] or matrix[] has happened, after which the program is in no       *)
(* defined state.                                                          *)
(***************************************************************************)
\* the numbers of the input, as digit sequences: zero, a short number, and
\* 2^32 + 1, which the input holds as the first number of the block only
ShortNumbers == { <<0>>, <<1, 2>> }
Numbers == ShortNumbers \cup { <<4, 2, 9, 4, 9, 6, 7, 2, 9, 7>> }

\* values emitted per call of accumulate_bins: one more than bins[] holds
MaxValues == MAX_BIN + 2

IsPrefix(p, q) == Len(p) <= Len(q) /\ SubSeq(q, 1, Len(p)) = p

\* the digit d continues a number of the input
DigitAllowed(d) ==
  LET ds == IF have_number THEN Append(tok_digits, d) ELSE <<d>>
  IN \E q \in (IF nvals = 0 THEN Numbers ELSE ShortNumbers) : IsPrefix(ds, q)

\* no number of the input is cut short by the character read
NumberWhole == have_number => tok_digits \in Numbers

\* s*10 + c - '0' in unsigned 32-bit arithmetic
U32Times10Plus(a, d) ==
  LET lo == a[2] * 10 + d
      hi == a[1] * 10 + (lo \div Limb)
  IN <<hi % Limb, lo % Limb>>

saverowvars == <<matrix, recorded_counts, ignored_counts, columns, warn_dims,
                 frame_w, rows_accumulated, frame_h, frame_r>>

\* s as a number
Value == tok_s[1] * Limb + tok_s[2]

\* bins[b++] = s
AccumulatedBins == [bins EXCEPT ![tok_b + 1] = Value]

\* the text of a frame as tokens: a number, as its digits, or a separator
Num(ds) == [num |-> ds, sep |-> ""]
Sep(c) == [num |-> <<>>, sep |-> c]

\* the text a followed by the text b: digits on both sides of the cut are one
\* number
JoinText(a, b) ==
  IF a # <<>> /\ b # <<>> /\ a[Len(a)].sep = "" /\ b[1].sep = ""
  THEN SubSeq(a, 1, Len(a) - 1) \o <<Num(a[Len(a)].num \o b[1].num)>>
         \o Tail(b)
  ELSE a \o b

\* the text with the digit d read: if (have_number) s = s*10 + c - '0'
WithDigit(d) ==
  IF have_number THEN JoinText(ktext, <<Num(<<d>>)>>) ELSE Append(ktext, Num(<<d>>))

\* what the last line of the input holds when it has no line break at its
\* end: the rest of the number cut by the end of the buffer, or a number,
\* and then nothing or a separator and a number
Tails == { <<>>, <<Sep(","), Num(<<1, 2>>)>>, <<Sep(";"), Num(<<0>>)>> }
Rests ==
  { SubSeq(q, k, Len(q)) : q \in Numbers, k \in 2 .. 10 } \ { <<>> }
LastLines ==
  IF have_number
    THEN { <<Num(c)>> \o t :
             c \in { r \in Rests :
                       tok_digits \o r \in
                         (IF nvals = 0 THEN Numbers ELSE ShortNumbers) },
             t \in Tails }
         \cup { t \in Tails : t # <<>> /\ tok_digits \in Numbers }
    ELSE { <<Num(q)>> \o t : q \in ShortNumbers, t \in Tails }

\* ACCUMULATE, then save_row(bins, b) if saves, then return if returns;
\* after a ';' the row buffer is cleared (reflbin.c:413).  text is the text
\* examined with the character read, rest what the read before it fetched
Emit(saves, returns, text, rest) ==
  IF tok_b >= MAX_BIN + 1 \/ (saves /\ ~SaveRowFits(tok_b + 1))
  THEN /\ pc' = "undefined"
       /\ UNCHANGED <<optvars, framevars, filevars, histvars, tvars, ivars, mvars, lvars,
                      kvars>>
  ELSE /\ have_number' = FALSE
       /\ total_counts' = U32Plus(total_counts, tok_s)
       /\ nnz' = nnz + (IF tok_s # U32Zero THEN 1 ELSE 0)
       /\ tok_last' = [digits |-> tok_digits, s |-> tok_s]
       /\ nvals' = nvals + 1
       /\ ktext' = text
       /\ unread' = rest
       /\ IF saves
            THEN /\ save_row(SubSeq(AccumulatedBins, 1, tok_b + 1))
                 /\ handed' = Append(handed,
                                     SubSeq(AccumulatedBins, 1, tok_b + 1))
                 /\ pending' = 0
                 /\ IF returns
                      THEN bins' = AccumulatedBins /\ tok_b' = tok_b + 1
                      ELSE bins' = ZeroBins /\ tok_b' = 0
            ELSE /\ bins' = AccumulatedBins /\ tok_b' = tok_b + 1
                 /\ pending' = pending + 1
                 /\ handed' = handed
                 /\ UNCHANGED saverowvars
       /\ pc' = IF returns THEN "returned" ELSE pc
       /\ UNCHANGED <<optvars, rows, points, histvars, tvars, ivars, mvars, lvars, tok_s,
                      tok_digits>>

Returns ==
  /\ pc' = "returned"
  /\ UNCHANGED <<optvars, framevars, filevars, histvars, tvars, ivars, mvars, lvars, kvars>>

\* return with the last line of the input fetched and not examined
ReturnsUnread(rest) ==
  /\ pc' = "returned"
  /\ unread' = rest
  /\ UNCHANGED <<optvars, framevars, filevars, histvars, tvars, ivars, mvars,
                 lvars, tok_s, have_number, tok_b, bins, tok_digits, tok_last,
                 pending, nvals, ktext, handed>>

\* if (isdigit(c))
ReadDigit(d) ==
  /\ pc = "scanning"
  /\ DigitAllowed(d)
  /\ tok_s' = IF have_number THEN U32Times10Plus(tok_s, d) ELSE U32(d)
  /\ have_number' = TRUE
  /\ tok_digits' = IF have_number THEN Append(tok_digits, d) ELSE <<d>>
  /\ ktext' = WithDigit(d)
  /\ UNCHANGED <<optvars, framevars, filevars, pc, histvars, tvars, ivars, mvars, lvars,
                 tok_b, bins, tok_last, pending, nvals, unread, handed>>

\* else if (c==',' || c==';')
ReadSeparator(c) ==
  /\ pc = "scanning"
  /\ NumberWhole
  /\ nvals < MaxValues
  /\ IF ~have_number
       THEN /\ pc' = "aborted"
            /\ UNCHANGED <<optvars, framevars, filevars, histvars, tvars,
                           ivars, mvars, lvars, kvars>>
       ELSE Emit(c = ";", FALSE, Append(ktext, Sep(c)), unread)

\* else if (c=='\n' || c=='\r'): next_line, then the frame ends if a number
\* is pending, or the function returns at the end of the input: "eof" with
\* nothing read, "last" with the last line of the input read, which has no
\* line break at its end
ReadLineEnd(after) ==
  /\ pc = "scanning"
  /\ NumberWhole
  /\ IF have_number
       THEN nvals < MaxValues /\ after # "last" /\ Emit(TRUE, TRUE, ktext, unread)
     ELSE IF after = "eof" THEN Returns
     ELSE IF after = "last" THEN \E rest \in LastLines : ReturnsUnread(rest)
     ELSE UNCHANGED vars

\* else if (c == '\0'): the line buffer ended without a line break
ReadBufferEnd(after) ==
  /\ pc = "scanning"
  /\ IF after = "eof"
       THEN /\ NumberWhole
            /\ IF have_number
                 THEN nvals < MaxValues /\ Emit(TRUE, TRUE, ktext, unread)
                 ELSE Returns
     ELSE IF after = "last"
       THEN \E rest \in LastLines :
              IF have_number
                THEN nvals < MaxValues /\ Emit(TRUE, TRUE, ktext, rest)
                ELSE ReturnsUnread(rest)
       ELSE UNCHANGED vars

\* else if (isspace(c))
ReadSpace ==
  /\ pc = "scanning"
  /\ NumberWhole
  /\ IF have_number THEN Returns ELSE UNCHANGED vars

\* else: any other character
ReadOther ==
  /\ pc = "scanning"
  /\ NumberWhole
  /\ Returns

\* the state in which integrate_psd calls accumulate_bins for the first
\* frame of a file, with -h1 and the full pixel window
InitK ==
  /\ width \in Widths /\ height = 1
  /\ xstart = 0 /\ xstop = 1000000 /\ ystart = 0 /\ ystop = 1000000
  /\ save_partial = FALSE /\ output = "VTK"
  /\ matrix = ZeroMatrix
  /\ frame_r = 0 /\ frame_w = 0 /\ frame_h = 0 /\ rows_accumulated = 0
  /\ total_counts = U32Zero /\ recorded_counts = U32Zero
  /\ ignored_counts = U32Zero
  /\ nnz = 0 /\ rows = 0 /\ columns = 0 /\ points = 1
  /\ warn_dims = TRUE
  /\ pc = "scanning"
  /\ raw = <<>> /\ nrows = 0 /\ pre = NoFrame /\ enc = <<>> /\ retained = 0
  /\ lastraw = <<>> /\ written = 0 /\ seenlens = {} /\ seenrows = {}
  /\ retained_nz = 0 /\ nvalues = 0 /\ files = 0
  /\ col_differs = 0 /\ row_differs = 0 /\ col_warned = 0 /\ row_warned = 0
  /\ tn = 0 /\ tm = 0 /\ ta = <<>> /\ t0 = <<>> /\ tcalls = 0
  /\ icp_line = <<" ">> /\ icp_c = 1 /\ icp_out = <<>> /\ icp_in = <<>>
  /\ TokenizerAtStart
  /\ LibAtRest
  /\ ArgsAtRest

NextK ==
  \/ \E d \in 0 .. 9 : ReadDigit(d)
  \/ \E c \in {",", ";"} : ReadSeparator(c)
  \/ \E after \in {"more", "eof", "last"} : ReadLineEnd(after)
  \/ \E after \in {"more", "eof", "last"} : ReadBufferEnd(after)
  \/ ReadSpace
  \/ ReadOther

SpecK == InitK /\ [][NextK]_vars

(***************************************************************************)
(* Properties of the tokenizer (specification SpecK)                       *)
(***************************************************************************)
\* the values emitted that no save_row call has received
PendingSum == SumSeq(SubSeq(bins, 1, pending))

C16_NoOverrun == pc # "undefined"

\* C17: the assertion have_number == 1 never fails.
C17_NeverAborts == pc # "aborted"

\* the exact value of a digit sequence, in three 16-bit limbs
WideTimes10Plus(w, d) ==
  LET l0 == w[3] * 10 + d
      l1 == w[2] * 10 + (l0 \div Limb)
      l2 == w[1] * 10 + (l1 \div Limb)
  IN <<l2, l1 % Limb, l0 % Limb>>

RECURSIVE ExactValue(_, _)
ExactValue(digits, k) ==
  IF k = 0 THEN <<0, 0, 0>>
  ELSE WideTimes10Plus(ExactValue(digits, k - 1), digits[k])

\* C18: the value emitted for a number is the exact decimal value of its
\* digits (the tokenizer has no overflow outcome).
C18_EmitsExactValue ==
  tok_last # NoNumber =>
    <<0, tok_last.s[1], tok_last.s[2]>>
      = ExactValue(tok_last.digits, Len(tok_last.digits))

(***************************************************************************)
(* Properties of the file as reported: VTK header, batch, nnz              *)
(***************************************************************************)
\* what process_file prints into the VTK header (reflbin.c:560-567)
Dimensions == <<columns, rows, points>>
PointData == columns * rows * points

\* C12: when process_file has completed in VTK mode, the third dimension in
\* the header is the number of frames written to the body, and POINT_DATA is
\* the number of values written to the body.
C12_HeaderMatchesBody ==
  (pc = "done" /\ output = "VTK") =>
    /\ Dimensions[3] = written
    /\ PointData = nvalues

\* C13: the step that starts a file leaves every per-file counter at 0 (points
\* at 1 if the step has read the first point line) and the warning armed.
C13_FileStartsFresh ==
  [][(pc = "idle" /\ pc' # "idle") =>
       /\ total_counts' = U32Zero
       /\ recorded_counts' = U32Zero
       /\ ignored_counts' = U32Zero
       /\ nnz' = 0
       /\ rows' = 0 /\ columns' = 0
       /\ points' = (IF pc' = "frame" THEN 1 ELSE 0)
       /\ warn_dims']_vars

\* C15: the nnz reported at the end of a file is the number of nonzero bins
\* among the retained bins of the frames written for it.
C15_NnzCountsRetainedBins ==
  (pc = "done" /\ files = 0) => nnz = retained_nz

(***************************************************************************)
(* Specification SpecT: the transpose step of write_frame                  *)
(* (reflbin.c:296-300) on frames of every shape up to MaxDim x MaxDim.     *)
(* tn, tm are frame_h, frame_w; ta is the frame buffer, row-major with row *)
(* length frame_w; t0 is the buffer before the first call.                 *)
(***************************************************************************)
\* the variables of the per-file pipeline, at rest
MainAtRest ==
  /\ width = 1 /\ height = 1000000
  /\ xstart = 0 /\ xstop = 1000000 /\ ystart = 0 /\ ystop = 1000000
  /\ save_partial = FALSE /\ output = "ICP"
  /\ matrix = ZeroMatrix
  /\ frame_r = 0 /\ frame_w = 0 /\ frame_h = 0 /\ rows_accumulated = 0
  /\ total_counts = U32Zero /\ recorded_counts = U32Zero
  /\ ignored_counts = U32Zero
  /\ nnz = 0 /\ rows = 0 /\ columns = 0 /\ points = 0
  /\ warn_dims = FALSE
  /\ pc = "idle"
  /\ raw = <<>> /\ nrows = 0 /\ pre = NoFrame /\ enc = <<>> /\ retained = 0
  /\ lastraw = <<>> /\ written = 0 /\ seenlens = {} /\ seenrows = {}
  /\ retained_nz = 0 /\ nvalues = 0 /\ files = 0
  /\ col_differs = 0 /\ row_differs = 0 /\ col_warned = 0 /\ row_warned = 0

mainvars == <<optvars, framevars, filevars, pc, histvars>>

InitT ==
  /\ MainAtRest
  /\ tn \in 1 .. MaxDim /\ tm \in 1 .. MaxDim
  /\ ta = [k \in 0 .. (tn * tm - 1) |-> k + 1]
  /\ t0 = ta
  /\ tcalls = 0
  /\ icp_line = <<" ">> /\ icp_c = 1 /\ icp_out = <<>> /\ icp_in = <<>>
  /\ TokenizerAtStart
  /\ LibAtRest
  /\ ArgsAtRest

\* mx_transpose(frame_h,frame_w,matrix,matrix);
\* i = frame_w; frame_w = frame_h; frame_h = i;
TransposeFrame ==
  /\ tcalls < 2
  /\ ta' = mx_transpose(tn, tm, ta)
  /\ tn' = tm /\ tm' = tn
  /\ tcalls' = tcalls + 1
  /\ UNCHANGED <<mainvars, t0, ivars, mvars, lvars, kvars>>

NextT == TransposeFrame

SpecT == InitT /\ [][NextT]_vars

\* C8: after the transpose step the value that was at row r, column c of the
\* frame_h x frame_w frame is at row c, column r of the frame_w x frame_h
\* frame (tm is the old frame_h, tn the old frame_w).
C8_IsTranspose ==
  tcalls = 1 =>
    \A r \in 0 .. (tm - 1) : \A c \in 0 .. (tn - 1) :
      ta[c * tm + r] = t0[r * tn + c]

\* C9: two transpose steps restore the buffer and the dimensions, and one
\* step on a frame of one row or one column leaves the buffer unchanged.
C9_TwiceIsIdentity ==
  /\ tcalls = 2 => ta = t0
  /\ (tcalls = 1 /\ (tn = 1 \/ tm = 1)) => ta = t0

\* a 2 x 3 frame went through both steps, and the first one moved cells
C9_Witness ==
  /\ tcalls = 2 /\ tn = 2 /\ tm = 3
  /\ mx_transpose(2, 3, t0) # t0

(***************************************************************************)
(* Specification SpecI: the ICP encoder icp_save (reflbin.c:117-165) with  *)
(* its static line buffer, called with rows from IcpRows and either        *)
(* continuation flag.  Text is a sequence of one-character strings.        *)
(* icp_line holds line[0 .. c-1]; icp_out is the sequence of strings fputs *)
(* has written, in order; icp_in is the sequence of calls made.            *)
(***************************************************************************)
DigitChars == <<"0", "1", "2", "3", "4", "5", "6", "7", "8", "9">>

\* rows handed to the encoder: one in-loop wrap (eight values), and sums of
\* row lengths that land on both sides of the 78-character limit
IcpRows ==
  { <<0>>,
    <<123456789, 4000, 1000>>,
    <<2147483647, 1000000000, 99999>>,
    <<1000000000, 2147483647, 1000000000, 2147483647,
      1000000000, 2147483647, 1000000000, 12345678>> }

\* while (u) { a[l++] = '0'+u%10; u = u/10; }
RECURSIVE ReverseDigits(_)
ReverseDigits(u) ==
  IF u = 0 THEN <<>>
  ELSE <<DigitChars[(u % 10) + 1]>> \o ReverseDigits(u \div 10)

\* for (i=l/2; i>0; i--) swap a[l-i] and a[i-1]   (a is 1-based here)
RECURSIVE SwapEnds(_, _)
SwapEnds(a, i) ==
  IF i > 0 THEN SwapEnds(Swap(a, Len(a) - i + 1, i), i - 1) ELSE a

\* mutant: the digits left in the order the division produces them
utoa_Reversed(u) ==
  IF ReverseDigits(u) = <<>> THEN <<"0">> ELSE ReverseDigits(u)

\* the digits of u, most significant first
utoa(u) ==
  LET r == ReverseDigits(u)
  IN IF Len(r) = 0 THEN <<"0">>
     ELSE IF Len(r) > 1 THEN SwapEnds(r, Len(r) \div 2)
     ELSE r

LineLimit == 78

\* len = utoa(num,line+c); c += len; line[c++] = ',';
AppendNumber(st, num) ==
  [st EXCEPT !.line = st.line \o utoa(num) \o <<",">>]

\* MOVE_NUMBER_TO_NEXT_LINE: the line is cut where the number starts and
\* written, the number restarts the buffer after line[0]
MoveNumberToNextLine(st, num) ==
  LET len == Len(utoa(num))
      c == Len(st.line)
      cut == [st.line EXCEPT ![c - len] = "\n"]
  IN [line |-> <<cut[1]>> \o utoa(num) \o <<",">>,
      out |-> Append(st.out, SubSeq(cut, 1, c - len))]

\* the while (1) loop over v[k .. Len(v)]
RECURSIVE IcpLoop(_, _, _)
IcpLoop(st, v, k) ==
  LET added == AppendNumber(st, v[k])
  IN IF k = Len(v) THEN added
     ELSE IcpLoop(IF Len(added.line) > LineLimit
                  THEN MoveNumberToNextLine(added, v[k])
                  ELSE added,
                  v, k + 1)

\* mutant: the check after the loop left out for rows that continue
IcpFinish_NoMove(st, num, continuation) ==
  IF continuation # 0 THEN st
  ELSE LET c == Len(st.line)
           trimmed == [st.line EXCEPT ![c] = "\n"]
       IN [line |-> <<trimmed[1]>>, out |-> Append(st.out, trimmed)]

\* the part after the loop
IcpFinish(st, num, continuation) ==
  IF continuation # 0
  THEN IF Len(st.line) > LineLimit THEN MoveNumberToNextLine(st, num)
       ELSE st
  ELSE LET moved == IF Len(st.line) - 1 > LineLimit
                    THEN MoveNumberToNextLine(st, num) ELSE st
           c == Len(moved.line)
           trimmed == [moved.line EXCEPT ![c] = "\n"]
       IN [line |-> <<trimmed[1]>>, out |-> Append(moved.out, trimmed)]

icp_save(st, v, continuation) ==
  IcpFinish(IcpLoop(st, v, 1), v[Len(v)], continuation)

InitI ==
  /\ MainAtRest
  /\ tn = 0 /\ tm = 0 /\ ta = <<>> /\ t0 = <<>> /\ tcalls = 0
  /\ icp_line = <<" ">> /\ icp_c = 1 /\ icp_out = <<>> /\ icp_in = <<>>
  /\ TokenizerAtStart
  /\ LibAtRest
  /\ ArgsAtRest

IcpSave(v, continuation) ==
  /\ Len(icp_in) < MaxCalls
  /\ Len(v) >= 1
  /\ LET st == icp_save([line |-> icp_line, out |-> icp_out], v, continuation)
     IN /\ icp_line' = st.line
        /\ icp_c' = Len(st.line)
        /\ icp_out' = st.out
  /\ icp_in' = Append(icp_in, [v |-> v, continuation |-> continuation])
  /\ UNCHANGED <<mainvars, tvars, mvars, lvars, kvars>>

NextI == \E v \in IcpRows : \E continuation \in {0, 1} : IcpSave(v, continuation)

SpecI == InitI /\ [][NextI]_vars

\* ---- reading ICP text back ----
DigitValues ==
  "0" :> 0 @@ "1" :> 1 @@ "2" :> 2 @@ "3" :> 3 @@ "4" :> 4 @@
  "5" :> 5 @@ "6" :> 6 @@ "7" :> 7 @@ "8" :> 8 @@ "9" :> 9
DigitValue(ch) == DigitValues[ch]
IsDigit(ch) == ch \in DOMAIN DigitValues

\* the strings written, joined in the order written
RECURSIVE Join(_, _)
Join(strings, k) ==
  IF k > Len(strings) THEN <<>> ELSE strings[k] \o Join(strings, k + 1)

\* the members of a set of numbers in increasing order
Sorted(S) ==
  [j \in 1 .. Cardinality(S) |->
     CHOOSE e \in S : Cardinality({q \in S : q < e}) = j - 1]

\* the number written in text[b .. e]
RECURSIVE NumberAt(_, _, _)
NumberAt(text, b, e) ==
  IF b > e THEN 0
  ELSE NumberAt(text, b, e - 1) * 10 + DigitValue(text[e])

\* The text is a list of numbers split by commas; a line break after a
\* comma, and the blank that starts the next line, continue the list; a
\* line break after a digit ends the list.
WellFormed(text) ==
  \A k \in 1 .. Len(text) :
    /\ text[k] = " " => ((k = 1 \/ text[k - 1] = "\n")
                         /\ k < Len(text) /\ IsDigit(text[k + 1]))
    /\ text[k] = "," => (k > 1 /\ IsDigit(text[k - 1]))
    /\ text[k] = "\n" => (k > 1 /\ (text[k - 1] = "," \/ IsDigit(text[k - 1])))
    /\ IsDigit(text[k]) => (k > 1 /\ k < Len(text))

\* lists: the lists that are ended; cur: the values of the list still open
DecodeText(text) ==
  LET ends == Sorted({e \in 1 .. (Len(text) - 1) :
                        IsDigit(text[e]) /\ ~IsDigit(text[e + 1])})
      starts == [j \in 1 .. Len(ends) |->
                   CHOOSE b \in 1 .. ends[j] :
                     /\ \A q \in b .. ends[j] : IsDigit(text[q])
                     /\ ~IsDigit(text[b - 1])]
      values == [j \in 1 .. Len(ends) |-> NumberAt(text, starts[j], ends[j])]
      closers == Sorted({j \in 1 .. Len(ends) : text[ends[j] + 1] = "\n"})
      first(i) == IF i = 1 THEN 1 ELSE closers[i - 1] + 1
  IN [ok |-> WellFormed(text),
      lists |-> [i \in 1 .. Len(closers) |->
                   SubSeq(values, first(i), closers[i])],
      cur |-> SubSeq(values, first(Len(closers) + 1), Len(values))]

Decode(strings) == DecodeText(Join(strings, 1))

\* the value lists handed to the encoder, one per frame (a frame ends with
\* the call that has continuation = 0)
RECURSIVE FramesOf(_, _, _, _)
FramesOf(calls, k, done, cur) ==
  IF k > Len(calls) THEN [lists |-> done, cur |-> cur]
  ELSE IF calls[k].continuation = 0
  THEN FramesOf(calls, k + 1, Append(done, cur \o calls[k].v), <<>>)
  ELSE FramesOf(calls, k + 1, done, cur \o calls[k].v)

LastCall == icp_in[Len(icp_in)]
LastValue == LastCall.v[Len(LastCall.v)]
FrameComplete == icp_in # <<>> /\ LastCall.continuation = 0

EndsWith(text, tail) ==
  /\ Len(text) >= Len(tail)
  /\ SubSeq(text, Len(text) - Len(tail) + 1, Len(text)) = tail

\* the last value of the row just encoded stands at the end of the output,
\* without a comma, followed by the line break
RowEndsLine ==
  /\ icp_c = 1
  /\ icp_out # <<>>
  /\ EndsWith(icp_out[Len(icp_out)], utoa(LastValue) \o <<"\n">>)

\* the last value of the row just encoded is in the line buffer followed by
\* a comma; the next call appends to the same line
RowEndsWithComma ==
  icp_c > 1 /\ EndsWith(icp_line, utoa(LastValue) \o <<",">>)

ValuesRoundTrip ==
  LET read == Decode(icp_out)
  IN /\ read.ok
     /\ read.lists = FramesOf(icp_in, 1, <<>>, <<>>).lists
     /\ read.cur = <<>>

LineTokens(txt) ==
  LET read == DecodeText(txt)
  IN IF read.lists = <<>> THEN read.cur ELSE read.lists[1]

\* the numbers written on lines 1 .. k, in order
RECURSIVE TokensThrough(_, _)
TokensThrough(strings, k) ==
  IF k = 0 THEN <<>>
  ELSE TokensThrough(strings, k - 1) \o LineTokens(strings[k])

\* the values passed in by calls 1 .. k, in order
RECURSIVE ValuesThrough(_, _)
ValuesThrough(calls, k) ==
  IF k = 0 THEN <<>> ELSE ValuesThrough(calls, k - 1) \o calls[k].v

\* the call (matrix row) that passed in the t-th value
RowOfValue(t) ==
  CHOOSE k \in 1 .. Len(icp_in) :
    /\ Len(ValuesThrough(icp_in, k - 1)) < t
    /\ t <= Len(ValuesThrough(icp_in, k))

\* the t-th value is the last value of a frame
EndsFrame(t) ==
  \E k \in 1 .. Len(icp_in) :
    icp_in[k].continuation = 0 /\ Len(ValuesThrough(icp_in, k)) = t

EndsWithComma(txt) == Len(txt) >= 2 /\ txt[Len(txt) - 1] = ","

\* every line written is at most LineLimit characters before its line break
LinesFit ==
  \A k \in 1 .. Len(icp_out) :
    /\ Len(icp_out[k]) - 1 <= LineLimit
    /\ icp_out[k][Len(icp_out[k])] = "\n"
    /\ \A q \in 1 .. (Len(icp_out[k]) - 1) : icp_out[k][q] # "\n"

\* the numbers read line by line, each line on its own, are the values
\* passed in: no number lies across a line break
NumbersWhole ==
  TokensThrough(Append(icp_out, icp_line \o <<"\n">>), Len(icp_out) + 1)
    = ValuesThrough(icp_in, Len(icp_in))

MaxArgs == 3
FileNames == {<<"a">>, <<"b">>}
Options ==
  { <<"-", "w", "2">>, <<"-", "w", "a">>, <<"-", "q">>, <<"-", "x", "5">>,
    <<"-", "x", "1", "-", "2">>, <<"-", "d">>, <<"-", "v", "t", "k">> }
Args == Options \cup FileNames
IOKinds == {"ok", "no_input", "no_output", "read_error"}
CommandLines == UNION { [1 .. n -> Args] : n \in 0 .. MaxArgs }

\* the number of decimal digits at the start of v
LeadingDigits(v) ==
  CHOOSE k \in 0 .. Len(v) :
    /\ \A j \in 1 .. k : IsDigit(v[j])
    /\ k < Len(v) => ~IsDigit(v[k + 1])

\* atoi: the value of the leading digits, 0 when there are none
atoi(v) == NumberAt(v, 1, LeadingDigits(v))

\* sscanf(v,"%d-%d",start,stop): the number of conversions made, and the
\* values converted
ScanRange(v) ==
  LET n1 == LeadingDigits(v)
      rest == SubSeq(v, n1 + 2, Len(v))
      n2 == LeadingDigits(rest)
  IN  IF n1 = 0 THEN [n |-> 0, start |-> 0, stop |-> 0]
      ELSE IF n1 = Len(v) \/ v[n1 + 1] # "-" \/ n2 = 0
        THEN [n |-> 1, start |-> atoi(v), stop |-> 0]
      ELSE [n |-> 2, start |-> atoi(v), stop |-> atoi(rest)]

\* range(v,&start,&stop) succeeds
RangeOk(v) == ScanRange(v).n = 2

\* main before its loop, with the defaults of reflbin.c:600-605
InitM ==
  /\ MainAtRest
  /\ tn = 0 /\ tm = 0 /\ ta = <<>> /\ t0 = <<>> /\ tcalls = 0
  /\ icp_line = <<" ">> /\ icp_c = 1 /\ icp_out = <<>> /\ icp_in = <<>>
  /\ TokenizerAtStart
  /\ LibAtRest
  /\ argv \in CommandLines
  /\ argi = 1
  /\ status = "running"
  /\ io \in [FileNames -> IOKinds]
  /\ opened = {} /\ created = {} /\ completed = {}

\* one turn of the loop for an argument that starts with '-': the switch
\* of reflbin.c:626-643
ReadOption ==
  /\ status = "running"
  /\ argi <= Len(argv)
  /\ argv[argi][1] = "-"
  /\ LET a == argv[argi]
         c == IF Len(a) >= 2 THEN a[2] ELSE ""
         v == SubSeq(a, 3, Len(a))
         exits == \/ c \notin {"w", "h", "x", "y", "v", "i", "p", "d"}
                  \/ c \in {"x", "y"} /\ ~RangeOk(v)
                  \/ c = "d" /\ v = <<>>
     IN /\ width' = IF c = "w" THEN atoi(v) ELSE width
        /\ height' = IF c = "h" THEN atoi(v) ELSE height
        /\ xstart' = IF c = "x" /\ RangeOk(v) THEN ScanRange(v).start - 1
                     ELSE xstart
        /\ xstop' = IF c = "x" /\ RangeOk(v) THEN ScanRange(v).stop - 1
                    ELSE xstop
        /\ ystart' = IF c = "y" /\ RangeOk(v) THEN ScanRange(v).start - 1
                     ELSE ystart
        /\ ystop' = IF c = "y" /\ RangeOk(v) THEN ScanRange(v).stop - 1
                    ELSE ystop
        /\ output' = IF c = "v" THEN "VTK" ELSE IF c = "i" THEN "ICP"
                     ELSE output
        /\ save_partial' = IF c = "p" THEN TRUE ELSE save_partial
        /\ IF exits
             THEN status' = "exit1" /\ argi' = argi
             ELSE status' = status /\ argi' = argi + 1
  /\ UNCHANGED <<framevars, filevars, pc, histvars, tvars, ivars, kvars,
                 lvars, argv, io, opened, created, completed>>

\* one turn of the loop for any other argument: process_file(argv[i],dir)
\* on an empty file.  The reset of reflbin.c:498-500 comes first; a NULL
\* from gzopen returns to the loop; the FILE* of fopen is used unchecked, so
\* that a NULL ends the run in the first write to it; next_line leaves the
\* program with exit(1) on a read error.
ProcessFile ==
  /\ status = "running"
  /\ argi <= Len(argv)
  /\ argv[argi][1] # "-"
  /\ warn_dims' = TRUE
  /\ rows' = 0 /\ columns' = 0 /\ points' = 0
  /\ total_counts' = U32Zero /\ recorded_counts' = U32Zero
  /\ ignored_counts' = U32Zero
  /\ LET how == io[argv[argi]]
     IN /\ opened' = IF how = "no_input" THEN opened
                     ELSE opened \cup {argi}
        /\ created' = IF how \in {"no_input", "no_output"} THEN created
                      ELSE created \cup {argi}
        /\ completed' = IF how = "ok" THEN completed \cup {argi}
                        ELSE completed
        /\ status' = CASE how = "no_output" -> "crashed"
                       [] how = "read_error" -> "exit1"
                       [] OTHER -> status
        /\ argi' = IF how \in {"ok", "no_input"} THEN argi + 1 ELSE argi
  /\ UNCHANGED <<optvars, framevars, nnz, pc, histvars, tvars, ivars, kvars,
                 lvars, argv, io>>

\* exit(0) after the loop
LeaveMain ==
  /\ status = "running"
  /\ argi > Len(argv)
  /\ status' = "exit0"
  /\ UNCHANGED <<optvars, framevars, filevars, pc, histvars, tvars, ivars,
                 kvars, lvars, argv, argi, io, opened, created, completed>>

NextM == ReadOption \/ ProcessFile \/ LeaveMain

SpecM == InitM /\ [][NextM]_vars

(***************************************************************************)
(* Properties of the command line (specification SpecM)                    *)
(***************************************************************************)
\* the positions of the file arguments and of the options
FilePositions == {k \in 1 .. Len(argv) : argv[k][1] # "-"}
OptionPositions == {k \in 1 .. Len(argv) : argv[k][1] = "-"}

\* an option no case of the switch names, or one whose value is not of the
\* form its case reads: a number for -w and -h, ###-### for -x and -y, a
\* path for -d
Malformed(a) ==
  LET c == IF Len(a) >= 2 THEN a[2] ELSE ""
      v == SubSeq(a, 3, Len(a))
  IN  \/ c \notin {"w", "h", "x", "y", "v", "i", "p", "d"}
      \/ c \in {"w", "h"} /\ (v = <<>> \/ LeadingDigits(v) # Len(v))
      \/ c \in {"x", "y"} /\ ~RangeOk(v)
      \/ c = "d" /\ v = <<>>

\* C19: a failure to open or read one file ends the work on that file only:
\* when the run is over and every option was good, every file whose calls
\* all succeed has been processed to its end.
C19_OtherFilesProcessed ==
  (status # "running" /\ \A k \in OptionPositions : ~Malformed(argv[k]))
    => \A k \in FilePositions : io[argv[k]] = "ok" => k \in completed

\* C20: a malformed or unknown option ends the run with exit code 1 before
\* any file is opened, wherever it stands: a run that is over and had such
\* an option (and no file whose calls fail) ended with exit code 1, and no
\* input was opened and no output created.
C20_BadOptionBeforeAnyFile ==
  ( /\ status # "running"
    /\ \E k \in OptionPositions : Malformed(argv[k])
    /\ \A k \in FilePositions : io[argv[k]] = "ok" )
    => status = "exit1" /\ opened = {} /\ created = {}

(***************************************************************************)
(* Specification SpecR: rebin_counts (rebin.h:59-87) on every pair of      *)
(* strictly increasing edge vectors with edges in 0 .. MaxEdge.  Real      *)
(* numbers are exact: the counts are multiples of Unit, which every bin    *)
(* width divides, so that Iold[i]*overlap/width is a whole number.  Old    *)
(* bin i holds Unit * 10^i, so that a result names the bins it came from.  *)
(* Arrays are functions on 0 .. n-1.                                       *)
(***************************************************************************)
MaxEdge == 4

RECURSIVE Factorial(_)
Factorial(n) == IF n <= 1 THEN 1 ELSE n * Factorial(n - 1)
Unit == Factorial(MaxEdge)

\* the strictly increasing vectors of at least two edges
EdgeVectors ==
  { e \in UNION { [0 .. n -> 0 .. MaxEdge] : n \in 1 .. MaxEdge } :
      \A k \in 1 .. (Len0(e) - 1) : e[k - 1] < e[k] }

CountsFor(n) == [i \in 0 .. (n - 1) |-> Unit * 10 ^ i]

\* BinIter(int _n, const Real *_edges)
BinIter(n, edges) ==
  LET forward == edges[0] < edges[n]
  IN  [ forward |-> forward,
        bin |-> IF forward THEN 0 ELSE n - 1,
        lo |-> IF forward THEN edges[0] ELSE edges[n],
        hi |-> IF forward THEN edges[1] ELSE edges[n - 1],
        atend |-> n < 1 ]

\* the body of BinIter::operator++ for an iterator that is not at its end
Increment(it, n, edges) ==
  LET bin == IF it.forward THEN it.bin + 1 ELSE it.bin - 1
      atend == IF it.forward THEN bin >= n ELSE bin < 0
  IN  [ forward |-> it.forward,
        bin |-> bin,
        lo |-> it.hi,
        hi |-> IF atend THEN it.hi
               ELSE IF it.forward THEN edges[bin + 1] ELSE edges[bin],
        atend |-> atend ]

\* rebin_counts up to its loop: the new bins are cleared and the iterators
\* constructed
InitR ==
  /\ MainAtRest
  /\ tn = 0 /\ tm = 0 /\ ta = <<>> /\ t0 = <<>> /\ tcalls = 0
  /\ icp_line = <<" ">> /\ icp_c = 1 /\ icp_out = <<>> /\ icp_in = <<>>
  /\ TokenizerAtStart
  /\ ArgsAtRest
  /\ xold \in EdgeVectors
  /\ xnew \in EdgeVectors
  /\ Iold = CountsFor(Len0(xold) - 1)
  /\ Inew = [j \in 0 .. (Len0(xnew) - 2) |-> 0]
  /\ from = BinIter(Len0(xold) - 1, xold)
  /\ to = BinIter(Len0(xnew) - 1, xnew)
  /\ rpc = "loop"
  /\ yold = <<>> /\ ynew = <<>> /\ jold = 0 /\ jnew = 0
  /\ Str2imatAtRest
  /\ VtkAtRest

\* one turn of the loop of rebin.h:73-86.  Every turn ends in one call of
\* operator++, which is declared to return BinIter& and has no return
\* statement (rebin.h:34-48): the call is undefined, and a build either
\* goes on as if the function returned (returns = TRUE) or leaves the
\* program (returns = FALSE).
RebinTurn(returns) ==
  /\ rpc = "loop"
  /\ ~from.atend /\ ~to.atend
  /\ LET Nold == Len0(xold) - 1
         Nnew == Len0(xnew) - 1
         overlap == Min2(from.hi, to.hi) - Max2(from.lo, to.lo)
         oldwidth == from.hi - from.lo
         adds == ~(to.hi <= from.lo) /\ ~(from.hi <= to.lo)
         moves_from == IF to.hi <= from.lo THEN FALSE
                       ELSE IF from.hi <= to.lo THEN TRUE
                       ELSE to.hi > from.hi
     IN /\ Inew' = IF adds
                     THEN [Inew EXCEPT ![to.bin] =
                             @ + (Iold[from.bin] * overlap) \div oldwidth]
                     ELSE Inew
        /\ IF returns
             THEN /\ from' = IF moves_from THEN Increment(from, Nold, xold)
                             ELSE from
                  /\ to' = IF moves_from THEN to
                           ELSE Increment(to, Nnew, xnew)
                  /\ rpc' = rpc
             ELSE /\ rpc' = "crashed"
                  /\ UNCHANGED <<from, to>>
  /\ UNCHANGED <<mainvars, tvars, ivars, mvars, kvars, svars, vvars, xold, Iold,
                 xnew, yold, ynew, jold, jnew>>

\* the loop of rebin.h:73 ends, and rebin_counts returns
RebinReturn ==
  /\ rpc = "loop"
  /\ from.atend \/ to.atend
  /\ rpc' = "done"
  /\ UNCHANGED <<mainvars, tvars, ivars, mvars, kvars, svars, vvars, xold, Iold,
                 xnew, Inew, from, to, yold, ynew, jold, jnew>>

NextR == (\E returns \in BOOLEAN : RebinTurn(returns)) \/ RebinReturn

SpecR == InitR /\ [][NextR]_vars

(***************************************************************************)
(* Properties of rebin_counts (specification SpecR)                        *)
(***************************************************************************)
\* the length of the part of old bin i that lies in new bin j
Overlap(eo, i, en, j) ==
  Max2(0, Min2(eo[i + 1], en[j + 1]) - Max2(eo[i], en[j]))

\* the sum over old bins i of Iold[i] * overlap / width
RECURSIVE OverlapSum(_, _, _, _, _)
OverlapSum(eo, I, en, j, i) ==
  IF i < 0 THEN 0
  ELSE (I[i] * Overlap(eo, i, en, j)) \div (eo[i + 1] - eo[i])
       + OverlapSum(eo, I, en, j, i - 1)

RECURSIVE Total(_, _)
Total(I, n) == IF n < 1 THEN 0 ELSE I[n - 1] + Total(I, n - 1)

NewCoversOld ==
  xnew[0] <= xold[0] /\ xold[Len0(xold) - 1] <= xnew[Len0(xnew) - 1]

\* what rebin_counts has to leave in Inew
RebinnedAsSpecified ==
  /\ \A j \in DOMAIN Inew :
       Inew[j] = OverlapSum(xold, Iold, xnew, j, Len0(xold) - 2)
  /\ NewCoversOld =>
       Total(Inew, Len0(xnew) - 1) = Total(Iold, Len0(xold) - 1)

\* C21: for strictly increasing edge vectors rebin_counts returns, and then
\* every new bin holds the sum over the old bins of Iold[i] * overlap /
\* width, and the totals agree when the new range covers the old one.
C21_RebinIsOverlapSum ==
  /\ rpc # "crashed"
  /\ rpc = "done" => RebinnedAsSpecified

(***************************************************************************)
(* Specification SpecS: str2imat (str2imat.c:20-55), one character of the  *)
(* string per step, on the strings of R rows of C numbers with R and C in  *)
(* 1 .. MaxShape and on every size in 0 .. MaxShape*MaxShape + 1.  The     *)
(* number at position p of a string (in reading order, from 0) is          *)
(* FirstValue + p, so that a cell of imat names the number stored in it;   *)
(* a cell that was never written holds Unwritten.                          *)
(***************************************************************************)
MaxShape == 2
FirstValues == {1, 98}
Unwritten == 0 - 1
Styles == {"plain", "spaced"}

\* the text of the numbers p .. R*C-1 of a string of R rows of C numbers
RECURSIVE MatrixText(_, _, _, _, _)
MatrixText(R, C, first, style, p) ==
  IF p >= R * C THEN <<>>
  ELSE utoa(first + p)
       \o (IF p = R * C - 1 THEN <<>>
           ELSE IF (p + 1) % C = 0 THEN <<";">>
           ELSE IF style = "spaced" THEN <<",", " ">>
           ELSE <<",">>)
       \o MatrixText(R, C, first, style, p + 1)

\* str2imat before its loop (str2imat.c:28-33)
InitS ==
  /\ MainAtRest
  /\ tn = 0 /\ tm = 0 /\ ta = <<>> /\ t0 = <<>> /\ tcalls = 0
  /\ icp_line = <<" ">> /\ icp_c = 1 /\ icp_out = <<>> /\ icp_in = <<>>
  /\ TokenizerAtStart
  /\ ArgsAtRest
  /\ RebinAtRest
  /\ VtkAtRest
  /\ shape \in [R : 1 .. MaxShape, C : 1 .. MaxShape, first : FirstValues]
  /\ \E style \in Styles :
       str = MatrixText(shape.R, shape.C, shape.first, style, 0)
  /\ imat_size \in 0 .. (MaxShape * MaxShape + 1)
  /\ imat = [c \in 0 .. (imat_size - 1) |-> Unwritten]
  /\ str_i = 0 /\ nr = 0 /\ nc = 0 /\ number = 0 /\ str_k = 0
  /\ out_rows = 0 - 1
  /\ out_columns = 1
  /\ spc = "scanning"

\* one turn of the loop for a character that is not the end of the string
\* (str2imat.c:35-51); str[i] is str[str_i + 1] here
ReadChar ==
  /\ spc = "scanning"
  /\ str_i < Len(str)
  /\ LET c == str[str_i + 1]
         stores == c \in {",", ";"}
     IN IF stores /\ str_k = imat_size
          THEN /\ spc' = "returned"
               /\ UNCHANGED <<imat, str_i, number, str_k, nr, nc>>
          ELSE /\ number' = IF IsDigit(c) THEN number * 10 + DigitValue(c)
                            ELSE IF stores THEN 0
                            ELSE number
               /\ imat' = IF stores THEN [imat EXCEPT ![str_k] = number]
                          ELSE imat
               /\ str_k' = IF stores THEN str_k + 1 ELSE str_k
               /\ nc' = IF c = "," THEN nc + 1
                        ELSE IF c = ";" THEN 0
                        ELSE nc
               /\ nr' = IF c = ";" THEN nr + 1 ELSE nr
               /\ str_i' = str_i + 1
               /\ spc' = spc
  /\ UNCHANGED <<mainvars, tvars, ivars, mvars, kvars, rvars, vvars, str, imat_size,
                 out_rows, out_columns, shape>>

\* the end of the string: break, then *columns = ++nc; *rows = ++nr;
ReadEnd ==
  /\ spc = "scanning"
  /\ str_i = Len(str)
  /\ nc' = nc + 1 /\ out_columns' = nc + 1
  /\ nr' = nr + 1 /\ out_rows' = nr + 1
  /\ spc' = "returned"
  /\ UNCHANGED <<mainvars, tvars, ivars, mvars, kvars, rvars, vvars, str, imat_size,
                 imat, str_i, number, str_k, shape>>

NextS == ReadChar \/ ReadEnd

SpecS == InitS /\ [][NextS]_vars

(***************************************************************************)
(* Properties of str2imat (specification SpecS)                            *)
(***************************************************************************)
\* the number at position p of the string, in reading order from 0
NumberOf(p) == shape.first + p

\* C22: when str2imat has returned for a string of R rows of C numbers:
\* with R*C <= size, imat[0..R*C-1] holds all the numbers of the string in
\* reading order, the last one included, and rows = R and columns = C;
\* with more numbers than size, rows < 0.
C22_StoresWholeMatrix ==
  spc = "returned" =>
    LET R == shape.R
        C == shape.C
    IN  IF R * C <= imat_size
          THEN /\ out_rows = R /\ out_columns = C
               /\ \A p \in 0 .. (R * C - 1) :
                    imat[p] = NumberOf(p)
          ELSE out_rows < 0

(***************************************************************************)
(* Specification SpecR2: rebin_counts_2D (rebin2D.h:98-135) as Prebin2d    *)
(* calls it (reduction.cc:94-95): the four N arguments are the numbers of  *)
(* bins, nxin-1 and so on, and Iold and Inew hold one cell for every bin,  *)
(* the cell of bin (ix,iy) at ix + iy*(number of x bins).  Edges are in    *)
(* 0 .. MaxEdge2D.  Real numbers are exact: the counts are multiples of    *)
(* Unit2D, which every product of an x width and a y width divides; old    *)
(* cell c holds Unit2D * 5^c.  Inew is the caller's buffer: every cell of  *)
(* it holds the same value, zero or not, when the call is made.            *)
(***************************************************************************)
MaxEdge2D == 2
Unit2D == Factorial(MaxEdge2D) * Factorial(MaxEdge2D)
EdgeVectors2D == {e \in EdgeVectors : \A k \in DOMAIN e : e[k] <= MaxEdge2D}
PriorContents == {0, 0 - 7 * Unit2D}

\* the loop of rebin_counts_portion (rebin2D.h:51-70), from the turn with
\* the indexes iold and inew on.  Io and In are the whole arrays, oo and no
\* the offsets of the pointers Iold and Inew into them, and pnum/pden is
\* ND_portion.  The result is In, or Undefined when a turn reads or writes
\* outside an array (an array with no cell 0, which no call returns).
Undefined == [c \in {0 - 1} |-> 0]
RECURSIVE PortionLoop(_, _, _, _, _, _, _, _, _, _, _, _)
PortionLoop(Nold, xo, Io, oo, Nnew, xn, In, no, pnum, pden, iold, inew) ==
  IF ~(inew < Nnew /\ iold < Nold) THEN In
  ELSE IF {iold, iold + 1} \subseteq DOMAIN xo
          /\ {inew, inew + 1} \subseteq DOMAIN xn
    THEN LET xold_lo == xo[iold]
             xold_hi == xo[iold + 1]
             xnew_lo == xn[inew]
             xnew_hi == xn[inew + 1]
             delta == Min2(xold_hi, xnew_hi) - Max2(xold_lo, xnew_lo)
             xwidth == xold_hi - xold_lo
         IN IF xnew_hi <= xold_lo
              THEN PortionLoop(Nold, xo, Io, oo, Nnew, xn, In, no, pnum, pden,
                               iold, inew + 1)
            ELSE IF xold_hi <= xnew_lo
              THEN PortionLoop(Nold, xo, Io, oo, Nnew, xn, In, no, pnum, pden,
                               iold + 1, inew)
            ELSE IF (oo + iold) \in DOMAIN Io /\ (no + inew) \in DOMAIN In
              THEN PortionLoop(Nold, xo, Io, oo, Nnew, xn,
                     [In EXCEPT ![no + inew] =
                        @ + (Io[oo + iold] * delta * pnum)
                              \div (xwidth * pden)],
                     no, pnum, pden,
                     IF xnew_hi > xold_hi THEN iold + 1 ELSE iold,
                     IF xnew_hi > xold_hi THEN inew ELSE inew + 1)
            ELSE Undefined
  ELSE Undefined

rebin_counts_portion(Nold, xo, Io, oo, Nnew, xn, In, no, pnum, pden) ==
  PortionLoop(Nold, xo, Io, oo, Nnew, xn, In, no, pnum, pden, 0, 0)

\* for (int i=0; i < (Nxnew-1)*(Nynew-1); i++) Inew[i] = 0.;
ClearNewBins(In, Nxnew, Nynew) ==
  [c \in DOMAIN In |-> IF c < (Nxnew - 1) * (Nynew - 1) THEN 0 ELSE In[c]]

\* Prebin2d has checked the lengths and called rebin_counts_2D, which has
\* cleared the new bins (rebin2D.h:106) and stands before its loop
InitR2 ==
  /\ MainAtRest
  /\ tn = 0 /\ tm = 0 /\ ta = <<>> /\ t0 = <<>> /\ tcalls = 0
  /\ icp_line = <<" ">> /\ icp_c = 1 /\ icp_out = <<>> /\ icp_in = <<>>
  /\ TokenizerAtStart
  /\ ArgsAtRest
  /\ Str2imatAtRest
  /\ VtkAtRest
  /\ xold \in EdgeVectors2D /\ yold \in EdgeVectors2D
  /\ xnew \in EdgeVectors2D /\ ynew \in EdgeVectors2D
  /\ Iold = [c \in 0 .. ((Len0(xold) - 1) * (Len0(yold) - 1) - 1) |->
               Unit2D * 5 ^ c]
  /\ \E prior \in PriorContents :
       Inew = ClearNewBins(
                [c \in 0 .. ((Len0(xnew) - 1) * (Len0(ynew) - 1) - 1) |->
                   prior],
                Len0(xnew) - 1, Len0(ynew) - 1)
  /\ from = NoIter /\ to = NoIter
  /\ jold = 0 /\ jnew = 0
  /\ rpc = "loop"

\* one turn of the loop of rebin2D.h:112-134
Rebin2DTurn ==
  /\ rpc = "loop"
  /\ LET Nxold == Len0(xold) - 1
         Nyold == Len0(yold) - 1
         Nxnew == Len0(xnew) - 1
         Nynew == Len0(ynew) - 1
     IN /\ jnew < Nynew /\ jold < Nyold
        /\ IF {jold, jold + 1} \subseteq DOMAIN yold
              /\ {jnew, jnew + 1} \subseteq DOMAIN ynew
             THEN LET yold_lo == yold[jold]
                      yold_hi == yold[jold + 1]
                      ynew_lo == ynew[jnew]
                      ynew_hi == ynew[jnew + 1]
                      delta == Min2(yold_hi, ynew_hi) - Max2(yold_lo, ynew_lo)
                      ywidth == yold_hi - yold_lo
                      result == rebin_counts_portion(
                                  Nxold, xold, Iold, jold * (Nxold - 1),
                                  Nxnew, xnew, Inew, jnew * (Nxnew - 1),
                                  delta, ywidth)
                  IN IF ynew_hi <= ynew_lo
                       THEN jnew' = jnew + 1 /\ UNCHANGED <<jold, Inew, rpc>>
                     ELSE IF yold_hi <= ynew_lo
                       THEN jold' = jold + 1 /\ UNCHANGED <<jnew, Inew, rpc>>
                     ELSE IF result = Undefined
                       THEN rpc' = "undefined" /\ UNCHANGED <<jold, jnew, Inew>>
                     ELSE /\ Inew' = result
                          /\ jold' = IF ynew_hi > yold_hi THEN jold + 1
                                     ELSE jold
                          /\ jnew' = IF ynew_hi > yold_hi THEN jnew
                                     ELSE jnew + 1
                          /\ rpc' = rpc
             ELSE rpc' = "undefined" /\ UNCHANGED <<jold, jnew, Inew>>
  /\ UNCHANGED <<mainvars, tvars, ivars, mvars, kvars, svars, vvars, xold, Iold,
                 xnew, from, to, yold, ynew>>

\* the loop of rebin2D.h:112 ends, and rebin_counts_2D returns
Rebin2DReturn ==
  /\ rpc = "loop"
  /\ ~(jnew < Len0(ynew) - 1 /\ jold < Len0(yold) - 1)
  /\ rpc' = "done"
  /\ UNCHANGED <<mainvars, tvars, ivars, mvars, kvars, svars, vvars, xold, Iold,
                 xnew, Inew, from, to, yold, ynew, jold, jnew>>

NextR2 == Rebin2DTurn \/ Rebin2DReturn

SpecR2 == InitR2 /\ [][NextR2]_vars

(***************************************************************************)
(* Properties of rebin_counts_2D (specification SpecR2)                    *)
(***************************************************************************)
\* the sum over the old bins (ix,iy) of Iold[ix,iy] times the x-overlap
\* fraction times the y-overlap fraction, for the new bin (jx,jy); c runs
\* down over the old cells
RECURSIVE OverlapSum2D(_, _, _)
OverlapSum2D(jx, jy, c) ==
  IF c < 0 THEN 0
  ELSE LET Nxold == Len0(xold) - 1
           ix == c % Nxold
           iy == c \div Nxold
       IN (Iold[c] * Overlap(xold, ix, xnew, jx) * Overlap(yold, iy, ynew, jy))
            \div ((xold[ix + 1] - xold[ix]) * (yold[iy + 1] - yold[iy]))
          + OverlapSum2D(jx, jy, c - 1)

\* C23: rebin_counts_2D, called with the numbers of bins, indexes no array
\* outside its length, and when it has returned every new bin (jx,jy)
\* holds the sum over the old bins of Iold[ix,iy] times the two overlap
\* fractions, which is 0 for a new bin outside the old range and never
\* negative.
C23_Rebin2DIsOverlapSum ==
  /\ rpc # "undefined"
  /\ rpc = "done" =>
       \A c \in DOMAIN Inew :
         /\ Inew[c] = OverlapSum2D(c % (Len0(xnew) - 1),
                                   c \div (Len0(xnew) - 1), Len0(Iold) - 1)
         /\ Inew[c] >= 0

(***************************************************************************)
(* Specification SpecV: vtk_save (reflbin.c:168-191) on every array of up  *)
(* to MaxCodes counts drawn from Counts.  floor(2955.0*log(x)+0.5) is an   *)
(* increasing step function of x; CodeSteps holds the steps that matter:   *)
(* for a code, the least argument x of the logarithm, as a double, from    *)
(* which on the expression is at least that code.  Every count of Counts   *)
(* lies on a step or directly below the next one, so that its code is the  *)
(* code of the last step at or below it.                                   *)
(***************************************************************************)
MaxCodes == 3

U32Less(a, b) == a[1] < b[1] \/ (a[1] = b[1] /\ a[2] < b[2])

CodeSteps ==
  << [code |-> 0, from |-> <<0, 1>>],
     [code |-> 2048, from |-> <<0, 2>>],
     [code |-> 32768, from |-> <<0, 65437>>],
     [code |-> 65535, from |-> <<65325, 46197>>],
     [code |-> 65536, from |-> <<65347, 53443>>],
     [code |-> 65544, from |-> <<65524, 63553>>] >>

\* the counts 0, 1, 65436, 4281185396, 4282634433, 4282634434, 4294244416,
\* 2^32-2 and 2^32-1
Counts ==
  { <<0, 0>>, <<0, 1>>, <<0, 65436>>, <<65325, 46196>>, <<65347, 53441>>,
    <<65347, 53442>>, <<65524, 63552>>, <<65535, 65534>>, <<65535, 65535>> }

\* floor(2955.0*log(x)+0.5) for x >= 1
LogCode(x) ==
  LET reached == {k \in 1 .. Len(CodeSteps) : ~U32Less(x, CodeSteps[k].from)}
      last == CHOOSE k \in reached : \A j \in reached : j <= k
  IN  CodeSteps[last].code

\* *v+++1, in unsigned int
LogArgument(count) == U32Plus(count, <<0, 1>>)

\* the conversion to unsigned int of the value the expression yields is
\* defined: the logarithm of 0 is minus infinity
Convertible(count) == LogArgument(count) # U32Zero

VtkLineLimit == 1000

\* the loop of reflbin.c:173-186 from v[k] on; st is [line, out]
RECURSIVE VtkLoop(_, _, _)
VtkLoop(st, v, k) ==
  LET num == LogCode(LogArgument(v[k]))
      line == st.line \o utoa(num) \o <<" ">>
  IN  IF k = Len(v) THEN [line |-> line, out |-> st.out]
      ELSE IF Len(line) > VtkLineLimit
        THEN VtkLoop([line |-> <<>>,
                      out |-> Append(st.out,
                                SubSeq(line, 1, Len(line) - 1) \o <<"\n">>)],
                     v, k + 1)
      ELSE VtkLoop([line |-> line, out |-> st.out], v, k + 1)

\* line[c-1] = '\n'; line[c] = '\0'; fputs(line,out);
vtk_save(v) ==
  LET st == VtkLoop([line |-> <<>>, out |-> <<>>], v, 1)
  IN  Append(st.out, SubSeq(st.line, 1, Len(st.line) - 1) \o <<"\n">>)

\* write_frame has called vtk_save(outfile, v, n, continuation), n >= 1
InitV ==
  /\ MainAtRest
  /\ tn = 0 /\ tm = 0 /\ ta = <<>> /\ t0 = <<>> /\ tcalls = 0
  /\ icp_line = <<" ">> /\ icp_c = 1 /\ icp_out = <<>> /\ icp_in = <<>>
  /\ TokenizerAtStart
  /\ ArgsAtRest
  /\ RebinAtRest
  /\ Str2imatAtRest
  /\ vtk_v \in UNION { [1 .. n -> Counts] : n \in 1 .. MaxCodes }
  /\ vtk_out = <<>>
  /\ vtk_codes = <<>>
  /\ vpc = "called"

\* the whole call.  A count of 2^32-1 makes the argument of the logarithm
\* 0 and the conversion of the result to unsigned int undefined.
VtkSave ==
  /\ vpc = "called"
  /\ IF \A k \in 1 .. Len(vtk_v) : Convertible(vtk_v[k])
       THEN /\ vtk_out' = vtk_save(vtk_v)
            /\ vtk_codes' = [k \in 1 .. Len(vtk_v) |->
                               LogCode(LogArgument(vtk_v[k]))]
            /\ vpc' = "returned"
       ELSE /\ vpc' = "undefined"
            /\ UNCHANGED <<vtk_out, vtk_codes>>
  /\ UNCHANGED <<mainvars, tvars, ivars, mvars, kvars, rvars, svars, vtk_v>>

NextV == VtkSave

SpecV == InitV /\ [][NextV]_vars

(***************************************************************************)
(* Properties of vtk_save (specification SpecV)                            *)
(***************************************************************************)
\* C24: for every count of the unsigned 32-bit domain the argument of the
\* logarithm is count + 1 without wrap-around, never 0, and the code
\* written is in 0 .. 65535.
C24_CodeFitsSixteenBits ==
  /\ vpc # "undefined"
  /\ vpc = "returned" =>
       \A k \in 1 .. Len(vtk_codes) : vtk_codes[k] \in 0 .. 65535

(***************************************************************************)
(* Properties of the frame buffer (specification Spec)                     *)
(***************************************************************************)
\* the pixels of the raw rows of the frame finalized last
FramePixels ==
  UNION { {lastraw[r][i] : i \in DOMAIN lastraw[r]} : r \in DOMAIN lastraw }

\* the pixels summed into the value b of a bin (every pixel is its own
\* power of two)
PixelsIn(b) ==
  { PixelValue(r, i) : r \in 0 .. MaxRows, i \in 0 .. MAX_BIN }
    \cap { p \in 1 .. b : (b \div p) % 2 = 1 }

\* C25: every cell a frame occupies was zero when its accumulation started:
\* a bin of a finalized frame holds no pixel of an earlier frame, that is,
\* only pixels of the raw rows of its own frame.
C25_NoLeftoverCounts ==
  written >= 1 =>
    \A k \in DOMAIN pre.m : PixelsIn(pre.m[k]) \subseteq FramePixels

\* C26: in one file the column warning is printed exactly once when a raw
\* row has differed from the established columns, and the row warning
\* exactly once when a frame has differed from the established rows, each
\* whether or not the other has been printed.
C26_EachWarningOnce ==
  /\ col_warned = (IF col_differs > 0 THEN 1 ELSE 0)
  /\ row_warned = (IF row_differs > 0 THEN 1 ELSE 0)

(***************************************************************************)
(* Specification SpecL: the per-file pipeline of Spec, taking a step       *)
(* whenever one is possible (the program runs on while it has input).      *)
(***************************************************************************)
SpecL == Init /\ [][Next]_vars /\ WF_vars(Next)

\* the frame under accumulation has outgrown the frame buffer
FrameTooLarge == pc = "frame" /\ ~WriteFrameFits

\* C27: for every finite input file process_file reaches the end of the
\* input and returns, every encoder call finishing on the way: every run
\* on a file whose frames fit the frame buffer comes to pc = "done".
C27_FileReturns == <>(pc = "done" \/ FrameTooLarge)

\* C29: write_frame never calls an encoder with a value count below 1:
\* every frame it has encoded had frame_w >= 1 and frame_h >= 1, an empty
\* first frame of a file included.
C29_EncoderGetsValues ==
  written >= 1 => (pre.w >= 1 /\ pre.h >= 1)

(***************************************************************************)
(* The rows of a frame and how its text is split into reads (SpecK)        *)
(***************************************************************************)
\* the whole text of the frame: what was examined and what the last read
\* fetched
FrameText == JoinText(ktext, unread)

\* the value of a number of the text, in unsigned 32-bit arithmetic
RECURSIVE DigitsValue(_, _)
DigitsValue(digits, k) ==
  IF k = 0 THEN U32Zero
  ELSE U32Times10Plus(DigitsValue(digits, k - 1), digits[k])

NumberValue(digits) ==
  LET s == DigitsValue(digits, Len(digits)) IN s[1] * Limb + s[2]

\* the rows the digits and separators of a text hold: a row ends at each ';'
\* and at the number that ends the text
RECURSIVE TextRows(_, _)
TextRows(text, row) ==
  IF text = <<>> THEN <<>>
  ELSE LET t == Head(text) IN
       IF t.sep = ";" THEN <<row>> \o TextRows(Tail(text), <<>>)
       ELSE IF t.sep = "," THEN TextRows(Tail(text), row)
       ELSE IF Tail(text) = <<>> THEN <<Append(row, NumberValue(t.num))>>
       ELSE TextRows(Tail(text), Append(row, NumberValue(t.num)))

\* the sum of the numbers of a text
RECURSIVE TextTotal(_)
TextTotal(text) ==
  IF text = <<>> THEN U32Zero
  ELSE IF Head(text).sep = ""
         THEN U32Plus(DigitsValue(Head(text).num, Len(Head(text).num)),
                      TextTotal(Tail(text)))
         ELSE TextTotal(Tail(text))

\* the rows handed to save_row, each with the values it holds
HandedRows == handed

\* accumulate_bins has returned at the end of a line or of the input, having
\* examined digits or separators of the frame
ReturnedAtBreak == pc = "returned" /\ ~have_number /\ ktext # <<>>

\* C28: the rows accumulate_bins hands to save_row for a frame, and
\* total_counts, are those of the frame's digits and separators, however the
\* text is split into reads: a line break after a ',' or ';' and a read that
\* ends in the middle of a number change neither.
C28_RowsIndependentOfSplit ==
  ReturnedAtBreak =>
    /\ HandedRows = TextRows(FrameText, <<>>)
    /\ total_counts = TextTotal(FrameText)

\* the same for a frame whose text was examined to its end
C28_RowsOfExaminedText ==
  (ReturnedAtBreak /\ unread = <<>>) =>
    /\ HandedRows = TextRows(ktext, <<>>)
    /\ total_counts = TextTotal(ktext)

====
